---- MODULE Spec2Model ----
(***************************************************************************)
(* Chain-state query engine of src/rpc/blockchain.cpp.                     *)
(*                                                                         *)
(* Part I   TipChangeNotifier: latestblock, cs_blockchange,                *)
(*          cond_blockchange, RPCNotifyBlockChange, waitfornewblock,       *)
(*          waitforblock, waitforblockheight.                              *)
(* Part II  RangeAggregator: validaterange, getblockindexstats.            *)
(***************************************************************************)
EXTENDS Integers, Sequences, FiniteSets, TLC

(***************************************************************************)
(* Part I - TipChangeNotifier                                              *)
(***************************************************************************)

\* Bounds of the notifier model.
NumBlocks == 2          \* block hashes 1..NumBlocks may be passed to notify
MaxNotify == 2          \* calls of RPCNotifyBlockChange by the chain thread

Waiters == {"w1", "w2"}
ChainThread == "chain"
StopThread == "stop"
Notifiers == {ChainThread, StopThread}
Free == "free"
Null == [hash |-> 0 - 1, height |-> 0 - 1]

Hashes == 1..NumBlocks
\* pindex->nHeight of the block with hash h: block 1 is the genesis block
\* (height 0), blocks 2 and 3 share height 1 (a fork).
HeightOf(h) == h \div 2
\* The CBlockIndex objects the chain-connection event may pass.
BlockIndex == {[hash |-> h, height |-> HeightOf(h)] : h \in Hashes}
\* static CUpdatedBlock latestblock: zero-initialized.
ZeroBlock == [hash |-> 0, height |-> 0]
Snapshots == BlockIndex \cup {ZeroBlock}

Kinds == {"new", "hash", "height"}
Timeouts == {0, 1}
Targets(k) == IF k = "hash" THEN Hashes
              ELSE IF k = "height" THEN 1..2
              ELSE {0}
\* The requests a client may send: waitfornewblock(timeout),
\* waitforblock(hash, timeout), waitforblockheight(height, timeout).
Requests == UNION {[kind : {k}, timeout : Timeouts, target : Targets(k)] : k \in Kinds}
\* The requests of the second client in the two-client configurations.
SecondRequests == {[kind |-> "new", timeout |-> 0, target |-> 0],
                   [kind |-> "hash", timeout |-> 1, target |-> NumBlocks],
                   [kind |-> "height", timeout |-> 0, target |-> 1]}

VARIABLES
    latestblock,    \* static CUpdatedBlock latestblock
    mutex,          \* owner of cs_blockchange, or Free
    running,        \* what IsRPCRunning() returns
    pc,             \* position of each waiter
    kind,           \* which wait operation the waiter runs
    timeout,        \* its timeout argument
    target,         \* its hash or height argument
    block,          \* its local CUpdatedBlock block
    expired,        \* its wait_for deadline has passed
    npc,            \* position of each thread inside RPCNotifyBlockChange
    pindex,         \* argument of the running RPCNotifyBlockChange
    nNotify,        \* number of notify calls made by the chain thread
    previous,       \* history: snapshot stored when the waiter first took the lock
    notified,       \* history: a notify ran since the waiter first took the lock
    blockedAtStop   \* history: waiters blocked when the shutdown flag was set

nvars == <<latestblock, mutex, running, pc, kind, timeout, target, block,
           expired, npc, pindex, nNotify, previous, notified, blockedAtStop>>

\* State of one getblockindexstats request (Part II).
VARIABLES
    chain,          \* chainActive: chain[h + 1] is the block at height h
    req,            \* request.params: height, range
    apc,            \* position of the request
    heightStart,    \* int heightStart
    heightEnd,      \* int heightEnd
    pindexAt,       \* height of the block pindex points to, or NoIndex
    nFees,          \* CAmount nFees
    nFees_all,      \* CAmount nFees_all
    nBytes,         \* int64_t nBytes
    nTxCount,       \* int64_t nTxCount
    nTxCount_all,   \* int64_t nTxCount_all
    processed,      \* history: heights of the blocks read, in order
    unreadable,     \* height of the block ReadBlockFromDisk fails on, or NoIndex
    reply,          \* what the caller of getblockindexstats receives
    nBlocks,        \* int nBlocks of getfeeinfo, or NoIndex without getfeeinfo
    pblock,         \* the block pindex points to
    stale,          \* pindex points to a block that left the active chain
    reorged         \* the active chain has been reorganised

avars == <<chain, req, apc, heightStart, heightEnd, pindexAt, nFees,
           nFees_all, nBytes, nTxCount, nTxCount_all, processed, unreadable,
           reply, nBlocks, pblock, stale, reorged>>

\* State of the gettxoutsetinfo requests (Part III).
VARIABLES
    stores,         \* stores[k]: what the cursor of the k-th request yields
    unreadableAt,   \* cursor position GetKey/GetValue fails at, or 0
    dcall,          \* number of requests started
    dpc,            \* position of the request in progress
    pos,            \* position of pcursor
    prevkey,        \* uint256 prevkey
    outputs,        \* std::map<uint32_t, Coin> outputs, in key order
    ss,             \* CHashWriter ss: what has been written to it
    stats,          \* CCoinsStats stats
    flushed,        \* history: the arguments of the ApplyStats calls
    replies         \* what the callers of gettxoutsetinfo received

dvars == <<stores, unreadableAt, dcall, dpc, pos, prevkey, outputs, ss, stats,
           flushed, replies>>

\* State of the getchaintips requests (Part IV).
VARIABLES
    pprev,          \* mapBlockIndex: pprev[n] is CBlockIndex::pprev of node n
    addr,           \* addr[n]: where node n lies in memory (pointer order)
    nStatus,        \* nStatus[n]: CBlockIndex::nStatus of node n
    nChainTx,       \* nChainTx[n]: CBlockIndex::nChainTx of node n
    vChain,         \* chainActive: the nodes of the active chain by height
    tpc,            \* position of the request
    setTips,        \* std::set<const CBlockIndex*, CompareBlocksByHeight>
    res             \* UniValue res: the descriptors pushed so far

tvars == <<pprev, addr, nStatus, nChainTx, vChain, tpc, setTips, res>>
vars == <<nvars, avars, dvars, tvars>>

\* No getchaintips request is in progress and none will come.
TOff ==
    /\ pprev = <<>>
    /\ addr = <<>>
    /\ nStatus = <<>>
    /\ nChainTx = <<>>
    /\ vChain = <<>>
    /\ tpc = "off"
    /\ setTips = <<>>
    /\ res = <<>>

NoIndex == 0 - 1000
NoRequest == [height |-> 0, range |-> 0]
\* The caller has received nothing yet.
NoReply == [kind |-> "none"]

\* No request is in progress and none will come.
AOff ==
    /\ chain = <<>>
    /\ req = NoRequest
    /\ apc = "off"
    /\ heightStart = 0
    /\ heightEnd = 0
    /\ pindexAt = NoIndex
    /\ nFees = 0
    /\ nFees_all = 0
    /\ nBytes = 0
    /\ nTxCount = 0
    /\ nTxCount_all = 0
    /\ processed = <<>>
    /\ unreadable = NoIndex
    /\ reply = NoReply
    /\ nBlocks = NoIndex
    /\ pblock = <<>>
    /\ stale = FALSE
    /\ reorged = FALSE

\* uint256(): the null hash.
ZeroHash == 0
\* CCoinsStats(): the constructor sets the counters to 0, the hashes are
\* null; nDiskSize is left uninitialized.
CCoinsStats ==
    [nHeight |-> 0, hashBlock |-> ZeroHash, nTransactions |-> 0,
     nTransactionOutputs |-> 0, hashSerialized |-> ZeroHash,
     nDiskSize |-> "indeterminate", nTotalAmount |-> 0]

\* No gettxoutsetinfo request is in progress and none will come.
DOff ==
    /\ stores = <<>>
    /\ unreadableAt = 0
    /\ dcall = 0
    /\ dpc = "off"
    /\ pos = 0
    /\ prevkey = ZeroHash
    /\ outputs = <<>>
    /\ ss = <<>>
    /\ stats = CCoinsStats
    /\ flushed = <<>>
    /\ replies = <<>>

\* The state after static initialization. Each client holds the one request
\* it is going to send: r1 for the first, r2 for the second, whose position
\* p2 is "idle", or "off" for a client that never sends a request.
NStart(r1, r2, p2) ==
    /\ latestblock = ZeroBlock
    /\ mutex = Free
    /\ running = TRUE
    /\ pc = [w \in Waiters |-> IF w = "w1" THEN "idle" ELSE p2]
    /\ kind = [w \in Waiters |-> IF w = "w1" THEN r1.kind ELSE r2.kind]
    /\ timeout = [w \in Waiters |-> IF w = "w1" THEN r1.timeout ELSE r2.timeout]
    /\ target = [w \in Waiters |-> IF w = "w1" THEN r1.target ELSE r2.target]
    /\ block = [w \in Waiters |-> ZeroBlock]
    /\ expired = [w \in Waiters |-> FALSE]
    /\ npc = [t \in Notifiers |-> "idle"]
    /\ pindex = [t \in Notifiers |-> Null]
    /\ nNotify = 0
    /\ previous = [w \in Waiters |-> ZeroBlock]
    /\ notified = [w \in Waiters |-> FALSE]
    /\ blockedAtStop = {}

NInit == \E r1 \in Requests, r2 \in SecondRequests : NStart(r1, r2, "idle")

\* The notifier at rest: the state after static initialization.
NOff ==
    LET none == [kind |-> "new", timeout |-> 0, target |-> 0]
    IN  NStart(none, none, "off")

\* ---- RPCNotifyBlockChange --------------------------------------------------

InCall(w) == pc[w] \in {"check", "blocking", "blocked", "woken", "recheck"}
MarkNotified == [w \in Waiters |-> notified[w] \/ InCall(w)]

\* The chain-connection event calls RPCNotifyBlockChange(fInitialDownload, pindex).
NotifyCall(t) ==
    /\ t = ChainThread
    /\ npc[t] = "idle"
    /\ nNotify < MaxNotify
    /\ \E b \in BlockIndex : pindex' = [pindex EXCEPT ![t] = b]
    /\ nNotify' = nNotify + 1
    /\ npc' = [npc EXCEPT ![t] = "lock"]
    /\ UNCHANGED <<latestblock, mutex, running, pc, kind, timeout, target,
                   block, expired, previous, notified, blockedAtStop>>
    /\ UNCHANGED <<avars, dvars, tvars>>

\* Variant of NotifyLock: the snapshot is written without taking cs_blockchange.
NotifyLockUnlocked(t) ==
    /\ npc[t] = "lock"
    /\ npc' = [npc EXCEPT ![t] = "hash"]
    /\ notified' = MarkNotified
    /\ UNCHANGED <<latestblock, mutex, running, pc, kind, timeout, target,
                   block, expired, pindex, nNotify, previous, blockedAtStop>>
    /\ UNCHANGED <<avars, dvars, tvars>>

\* std::lock_guard<std::mutex> lock(cs_blockchange)
NotifyLock(t) ==
    /\ npc[t] = "lock"
    /\ mutex = Free
    /\ mutex' = t
    /\ npc' = [npc EXCEPT ![t] = "hash"]
    /\ notified' = MarkNotified
    /\ UNCHANGED <<latestblock, running, pc, kind, timeout, target, block,
                   expired, pindex, nNotify, previous, blockedAtStop>>
    /\ UNCHANGED <<avars, dvars, tvars>>

\* latestblock.hash = pindex->GetBlockHash()
NotifyWriteHash(t) ==
    /\ npc[t] = "hash"
    /\ latestblock' = [latestblock EXCEPT !.hash = pindex[t].hash]
    /\ npc' = [npc EXCEPT ![t] = "height"]
    /\ notified' = MarkNotified
    /\ UNCHANGED <<mutex, running, pc, kind, timeout, target, block, expired,
                   pindex, nNotify, previous, blockedAtStop>>
    /\ UNCHANGED <<avars, dvars, tvars>>

\* latestblock.height = pindex->nHeight; the lock_guard's scope ends
NotifyWriteHeight(t) ==
    /\ npc[t] = "height"
    /\ latestblock' = [latestblock EXCEPT !.height = pindex[t].height]
    /\ mutex' = IF mutex = t THEN Free ELSE mutex
    /\ npc' = [npc EXCEPT ![t] = "notify"]
    /\ notified' = MarkNotified
    /\ UNCHANGED <<running, pc, kind, timeout, target, block, expired,
                   pindex, nNotify, previous, blockedAtStop>>
    /\ UNCHANGED <<avars, dvars, tvars>>

\* Variant of Woken: notify_one() in place of notify_all().
WokenOne ==
    LET blocked == {w \in Waiters : pc[w] = "blocked"}
    IN  IF blocked = {} THEN {} ELSE {CHOOSE w \in blocked : TRUE}

\* The waiters cond_blockchange.notify_all() wakes: all that are blocked.
Woken == {w \in Waiters : pc[w] = "blocked"}

\* Variant of NotifyAll: notify_all() placed inside the if(pindex) block.
NotifyAllInsideIf(t) ==
    /\ npc[t] = "notify"
    /\ pc' = [w \in Waiters |->
                IF w \in Woken /\ pindex[t] # Null THEN "woken" ELSE pc[w]]
    /\ npc' = [npc EXCEPT ![t] = IF t = StopThread THEN "stopped" ELSE "idle"]
    /\ pindex' = [pindex EXCEPT ![t] = Null]
    /\ notified' = MarkNotified
    /\ UNCHANGED <<latestblock, mutex, running, kind, timeout, target, block,
                   expired, nNotify, previous, blockedAtStop>>
    /\ UNCHANGED <<avars, dvars, tvars>>

\* cond_blockchange.notify_all(), outside the lock
NotifyAll(t) ==
    /\ npc[t] = "notify"
    /\ pc' = [w \in Waiters |-> IF w \in Woken THEN "woken" ELSE pc[w]]
    /\ npc' = [npc EXCEPT ![t] = IF t = StopThread THEN "stopped" ELSE "idle"]
    /\ pindex' = [pindex EXCEPT ![t] = Null]
    /\ notified' = MarkNotified
    /\ UNCHANGED <<latestblock, mutex, running, kind, timeout, target, block,
                   expired, nNotify, previous, blockedAtStop>>
    /\ UNCHANGED <<avars, dvars, tvars>>

\* Shutdown: the flag read by IsRPCRunning() is cleared, then the stopping
\* thread calls RPCNotifyBlockChange(false, nullptr), which skips the
\* if(pindex) block and goes straight to notify_all.
StopRPC ==
    /\ running
    /\ npc[StopThread] = "idle"
    /\ running' = FALSE
    /\ blockedAtStop' = {w \in Waiters : pc[w] = "blocked"}
    /\ npc' = [npc EXCEPT ![StopThread] = "notify"]
    /\ UNCHANGED <<latestblock, mutex, pc, kind, timeout, target, block,
                   expired, pindex, nNotify, previous, notified>>
    /\ UNCHANGED <<avars, dvars, tvars>>

\* ---- the wait operations ---------------------------------------------------

\* Variant of PredNew: == in place of != in the hash comparison.
PredNewHashEq(w) ==
    \/ latestblock.height # block[w].height
    \/ latestblock.hash = block[w].hash
    \/ ~running

\* Variant of PredHeight: off by one, height + 1 >= target.
PredHeightEarly(w) == latestblock.height + 1 >= target[w] \/ ~running

\* Variant of PredHeight: > in place of >=.
PredHeightStrict(w) == latestblock.height > target[w] \/ ~running

\* The lambda passed to cond_blockchange.wait / wait_for.
PredNew(w) ==
    \/ latestblock.height # block[w].height
    \/ latestblock.hash # block[w].hash
    \/ ~running
PredHash(w) == latestblock.hash = target[w] \/ ~running
PredHeight(w) == latestblock.height >= target[w] \/ ~running
Pred(w) ==
    CASE kind[w] = "new" -> PredNew(w)
      [] kind[w] = "hash" -> PredHash(w)
      [] kind[w] = "height" -> PredHeight(w)

\* A request arrives: waitfornewblock(timeout), waitforblock(hash, timeout)
\* or waitforblockheight(height, timeout). Nothing shared is touched before
\* std::unique_lock<std::mutex> lock(cs_blockchange), so the call starts
\* where it takes the lock; waitfornewblock then does block = latestblock.
Call(w) ==
    /\ pc[w] = "idle"
    /\ mutex = Free
    /\ block' = [block EXCEPT ![w] = IF kind[w] = "new" THEN latestblock ELSE @]
    /\ mutex' = w
    /\ previous' = [previous EXCEPT ![w] = latestblock]
    /\ pc' = [pc EXCEPT ![w] = "check"]
    /\ UNCHANGED <<latestblock, running, kind, timeout, target, expired, npc,
                   pindex, nNotify, notified, blockedAtStop>>
    /\ UNCHANGED <<avars, dvars, tvars>>

\* Variant of WaitReturns: wait(lock) without the predicate loop, so that any
\* wakeup ends the wait.
WaitReturnsOnAnyWake(w) == Pred(w) \/ expired[w] \/ pc[w] = "recheck"

\* Variant of WaitReturns: wait() where wait_for() was meant, the deadline
\* is ignored.
WaitReturnsNoDeadline(w) == Pred(w)

\* Whether wait / wait_for returns at this evaluation of the predicate:
\* the predicate holds, or wait_for's deadline has passed.
WaitReturns(w) == Pred(w) \/ expired[w]

\* Variant of Check: the lock is released after the predicate was found
\* false, before the waiter is enqueued.
CheckUnlocksBeforeBlocking(w) ==
    /\ pc[w] \in {"check", "recheck"}
    /\ IF WaitReturns(w)
         THEN /\ block' = [block EXCEPT ![w] = latestblock]
              /\ pc' = [pc EXCEPT ![w] = "done"]
         ELSE /\ pc' = [pc EXCEPT ![w] = "blocking"]
              /\ UNCHANGED block
    /\ mutex' = IF mutex = w THEN Free ELSE mutex
    /\ UNCHANGED <<latestblock, running, kind, timeout, target, expired, npc,
                   pindex, nNotify, previous, notified, blockedAtStop>>
    /\ UNCHANGED <<avars, dvars, tvars>>

\* One evaluation of the predicate with the lock held. When the wait returns:
\* block = latestblock and the unique_lock's scope ends.
Check(w) ==
    /\ pc[w] \in {"check", "recheck"}
    /\ IF WaitReturns(w)
         THEN /\ block' = [block EXCEPT ![w] = latestblock]
              /\ mutex' = IF mutex = w THEN Free ELSE mutex
              /\ pc' = [pc EXCEPT ![w] = "done"]
         ELSE /\ pc' = [pc EXCEPT ![w] = "blocking"]
              /\ UNCHANGED <<block, mutex>>
    /\ UNCHANGED <<latestblock, running, kind, timeout, target, expired, npc,
                   pindex, nNotify, previous, notified, blockedAtStop>>
    /\ UNCHANGED <<avars, dvars, tvars>>

\* The condition variable releases the lock and enqueues the waiter; past
\* the deadline the wait ends at once and the lock is taken again.
Block(w) ==
    /\ pc[w] = "blocking"
    /\ mutex' = IF mutex = w THEN Free ELSE mutex
    /\ pc' = [pc EXCEPT ![w] = IF expired[w] THEN "woken" ELSE "blocked"]
    /\ UNCHANGED <<latestblock, running, kind, timeout, target, block,
                   expired, npc, pindex, nNotify, previous, notified,
                   blockedAtStop>>
    /\ UNCHANGED <<avars, dvars, tvars>>

\* A spurious wakeup.
Spurious(w) ==
    /\ pc[w] = "blocked"
    /\ pc' = [pc EXCEPT ![w] = "woken"]
    /\ UNCHANGED <<latestblock, mutex, running, kind, timeout, target, block,
                   expired, npc, pindex, nNotify, previous, notified,
                   blockedAtStop>>
    /\ UNCHANGED <<avars, dvars, tvars>>

\* The deadline of wait_for(lock, milliseconds(timeout), pred) passes, at any
\* point of the call; a blocked waiter wakes with cv_status::timeout.
Expire(w) ==
    /\ timeout[w] # 0
    /\ ~expired[w]
    /\ InCall(w)
    /\ expired' = [expired EXCEPT ![w] = TRUE]
    /\ pc' = [pc EXCEPT ![w] = IF @ = "blocked" THEN "woken" ELSE @]
    /\ UNCHANGED <<latestblock, mutex, running, kind, timeout, target, block,
                   npc, pindex, nNotify, previous, notified, blockedAtStop>>
    /\ UNCHANGED <<avars, dvars, tvars>>

\* A woken waiter takes the lock again before it re-evaluates the predicate.
Relock(w) ==
    /\ pc[w] = "woken"
    /\ mutex = Free
    /\ mutex' = w
    /\ pc' = [pc EXCEPT ![w] = "recheck"]
    /\ UNCHANGED <<latestblock, running, kind, timeout, target, block,
                   expired, npc, pindex, nNotify, previous, notified,
                   blockedAtStop>>
    /\ UNCHANGED <<avars, dvars, tvars>>

NNext ==
    \/ \E t \in Notifiers : NotifyCall(t)
    \/ \E t \in Notifiers : NotifyLock(t)
    \/ \E t \in Notifiers : NotifyWriteHash(t)
    \/ \E t \in Notifiers : NotifyWriteHeight(t)
    \/ \E t \in Notifiers : NotifyAll(t)
    \/ StopRPC
    \/ \E w \in Waiters : Call(w)
    \/ \E w \in Waiters : Check(w)
    \/ \E w \in Waiters : Block(w)
    \/ \E w \in Waiters : Spurious(w)
    \/ \E w \in Waiters : Expire(w)
    \/ \E w \in Waiters : Relock(w)

InitNotifier == NInit /\ AOff /\ DOff /\ TOff
SpecNotifier == InitNotifier /\ [][NNext]_vars

\* Scheduling: a thread that can take a step of a call in progress eventually
\* takes it, a thread that finds the mutex free again and again eventually
\* gets it (strong fairness: other waiters may wake spuriously without end),
\* and the deadline of a wait_for eventually passes. Nothing obliges a
\* client to send its request, the chain to connect a block, the process to
\* shut down or a spurious wakeup to happen.
NFairness ==
    /\ \A w \in Waiters :
          /\ WF_vars(Check(w))
          /\ WF_vars(Block(w))
          /\ SF_vars(Relock(w))
          /\ WF_vars(Expire(w))
    /\ \A t \in Notifiers :
          /\ SF_vars(NotifyLock(t))
          /\ WF_vars(NotifyWriteHash(t))
          /\ WF_vars(NotifyWriteHeight(t))
          /\ WF_vars(NotifyAll(t))

\* The configurations of the fair specification: one client sending any
\* request, or a waitfornewblock without timeout next to a
\* waitforblockheight with timeout.
NInitFair ==
    \/ \E r1 \in Requests : NStart(r1, [kind |-> "new", timeout |-> 0, target |-> 0], "off")
    \/ NStart([kind |-> "new", timeout |-> 0, target |-> 0],
              [kind |-> "height", timeout |-> 1, target |-> 2], "idle")

InitFairNotifier == NInitFair /\ AOff /\ DOff /\ TOff
FairNotifier == InitFairNotifier /\ [][NNext]_vars /\ NFairness

(***************************************************************************)
(* Part II - RangeAggregator: validaterange and getblockindexstats         *)
(***************************************************************************)

\* Bound of the aggregator model: chainActive.Height().
BestHeight == 2

\* Transactions. vin holds, per input, whether it is a zerocoin (public)
\* spend and the nValue of the previous output it refers to; vout holds the
\* nValue of each output; mint is HasZerocoinMintOutputs(); size is
\* GetSerializeSize(tx).
\* found tells whether GetTransaction finds the previous transaction.
StdIn(v) == [zc |-> FALSE, value |-> v, found |-> TRUE]
ZcIn == [zc |-> TRUE, value |-> 0, found |-> TRUE]
MissingIn == [zc |-> FALSE, value |-> 0, found |-> FALSE]
Coinbase == [coinbase |-> TRUE, coinstake |-> FALSE, vin |-> <<>>,
             vout |-> <<10>>, mint |-> FALSE, size |-> 1]
Coinstake == [coinbase |-> FALSE, coinstake |-> TRUE, vin |-> <<StdIn(20)>>,
              vout |-> <<0, 22>>, mint |-> FALSE, size |-> 2]
TxA == [coinbase |-> FALSE, coinstake |-> FALSE, vin |-> <<StdIn(5), StdIn(3)>>,
        vout |-> <<7>>, mint |-> FALSE, size |-> 3]
TxB == [coinbase |-> FALSE, coinstake |-> FALSE, vin |-> <<StdIn(4)>>,
        vout |-> <<1, 1>>, mint |-> FALSE, size |-> 2]
TxMint == [coinbase |-> FALSE, coinstake |-> FALSE, vin |-> <<StdIn(6)>>,
           vout |-> <<5>>, mint |-> TRUE, size |-> 4]
TxZcSpend == [coinbase |-> FALSE, coinstake |-> FALSE, vin |-> <<ZcIn>>,
              vout |-> <<3>>, mint |-> FALSE, size |-> 5]
TxOrphan == [coinbase |-> FALSE, coinstake |-> FALSE,
             vin |-> <<StdIn(2), MissingIn>>, vout |-> <<1>>, mint |-> FALSE,
             size |-> 3]

\* The blocks a chain is built from.
Genesis == <<Coinbase>>
BlockPool == {<<Coinbase>>,
              <<Coinbase, Coinstake>>,
              <<Coinbase, TxA>>,
              <<Coinbase, TxA, TxB>>,
              <<Coinbase, TxA, TxOrphan, TxB>>,
              <<Coinbase, Coinstake, TxMint, TxZcSpend, TxB>>}
\* The active chains: the genesis block and BestHeight blocks on top of it.
Chains == {c \in [1..BestHeight + 1 -> BlockPool] : c[1] = Genesis}
\* The (height, range) arguments a client may send.
\* The largest and the smallest value of an int.
IntMax == 2147483647
IntMin == 0 - IntMax - 1
RangeRequests ==
    [height : (0 - 1)..(BestHeight + 1),
     range : 0..(BestHeight + 2) \cup {IntMax}]

\* tx.IsCoinBase(), tx.IsCoinStake(), tx.HasZerocoinSpendInputs(),
\* tx.HasZerocoinMintOutputs(), block.IsProofOfStake()
IsCoinBase(tx) == tx.coinbase
IsCoinStake(tx) == tx.coinstake
HasZerocoinSpendInputs(tx) == \E j \in 1..Len(tx.vin) : tx.vin[j].zc
HasZerocoinMintOutputs(tx) == tx.mint
\* Variant: no block is taken for a proof-of-stake block.
IsProofOfStakeNever(blk) == FALSE
IsProofOfStake(blk) == Len(blk) > 1 /\ IsCoinStake(blk[2])

\* chainActive[h]: the block index at height h, or null.
ChainAt(h) == IF h >= 0 /\ h < Len(chain) THEN h ELSE NoIndex
\* chainActive.Next(pindex)
ChainNext(h) == IF h # NoIndex /\ h + 1 < Len(chain) THEN h + 1 ELSE NoIndex
\* chainActive.Height()
ChainHeight == Len(chain) - 1

\* The argument a client may send to getfeeinfo.
FeeInfoRequests == (0 - 1)..(BestHeight + 1)

\* A client calls getblockindexstats with (height, range), or getfeeinfo
\* with nBlocks.
AInit ==
    /\ chain \in Chains
    /\ \/ req \in RangeRequests /\ nBlocks = NoIndex /\ apc = "idle"
       \/ req = NoRequest /\ nBlocks \in FeeInfoRequests /\ apc = "feeinfo"
    /\ pblock = <<>>
    /\ stale = FALSE
    /\ reorged = FALSE
    /\ heightStart = 0
    /\ heightEnd = 0
    /\ pindexAt = NoIndex
    /\ nFees = 0
    /\ nFees_all = 0
    /\ nBytes = 0
    /\ nTxCount = 0
    /\ nTxCount_all = 0
    /\ processed = <<>>
    /\ unreadable \in {NoIndex} \cup 0..BestHeight
    /\ reply = NoReply

\* ---- validaterange ----------------------------------------------------------

minHeightStart == 1

\* a + b in int arithmetic wraps around on overflow.
Overflows(a, b) ==
    \/ b > 0 /\ a > IntMax - b
    \/ b < 0 /\ a < IntMin - b
WrapAdd(a, b) ==
    IF b > 0 /\ a > IntMax - b THEN (a - IntMax - 1) + (b - IntMax - 1)
    ELSE IF b < 0 /\ a < IntMin - b THEN (a + IntMax + 1) + (b + IntMax + 1)
    ELSE a + b

\* What validaterange can do with (height, range): "error" when it throws,
\* "ok" with the heightStart and heightEnd it stores. When
\* heightStart + range - 1 overflows, the behaviour is undefined: the sum
\* wraps around, or the comparison is made on the mathematical value (which
\* is above the best height), or the overflow traps.
validaterange(height, range) ==
    LET nBestHeight == ChainHeight
        sum == WrapAdd(height, range)
        end == WrapAdd(sum, 0 - 1)
        start == IF height < minHeightStart /\ end >= minHeightStart
                   THEN minHeightStart ELSE height
        Error == [outcome |-> "error", start |-> 0, end |-> 0]
        Trap == [outcome |-> "trap", start |-> 0, end |-> 0]
        Wrapped == IF end > nBestHeight THEN Error
                   ELSE [outcome |-> "ok", start |-> start, end |-> end]
    IN  IF height > nBestHeight THEN {Error}
        ELSE IF range < 1 THEN {Error}
        ELSE IF Overflows(height, range) \/ Overflows(sum, 0 - 1)
               THEN {Wrapped, Error, Trap}
        ELSE {Wrapped}

\* The failures a request can end with.
InvalidParameter == [kind |-> "error", code |-> "RPC_INVALID_PARAMETER"]
DatabaseError == [kind |-> "error", code |-> "RPC_DATABASE_ERROR"]

\* getblockindexstats up to the loop: validaterange, then
\* pindex = chainActive[heightStart] and the null check.
Validate ==
    /\ apc = "idle"
    /\ \E r \in validaterange(req.height, req.range) :
         IF r.outcome = "error"
           THEN /\ apc' = "rejected"
                /\ reply' = InvalidParameter
                /\ UNCHANGED <<heightStart, heightEnd, pindexAt, pblock>>
         ELSE IF r.outcome = "trap"
           THEN /\ apc' = "aborted"
                /\ UNCHANGED <<reply, heightStart, heightEnd, pindexAt, pblock>>
         ELSE /\ heightStart' = r.start
              /\ heightEnd' = r.end
              /\ pindexAt' = ChainAt(r.start)
              /\ IF ChainAt(r.start) = NoIndex
                    THEN /\ apc' = "rejected"
                         /\ reply' = InvalidParameter
                         /\ UNCHANGED pblock
                    ELSE /\ apc' = "loop"
                         /\ pblock' = chain[ChainAt(r.start) + 1]
                         /\ UNCHANGED reply
    /\ UNCHANGED <<chain, req, nFees, nFees_all, nBytes, nTxCount,
                   nTxCount_all, processed, unreadable, nBlocks, stale, reorged>>
    /\ UNCHANGED <<nvars, dvars, tvars>>

\* getfeeinfo: the start height is computed from the best height and
\* nBlocks, and getblockindexstats is called with (nStartHeight, nBlocks,
\* true).
FeeInfo ==
    /\ apc = "feeinfo"
    /\ LET nBestHeight == ChainHeight
           nStartHeight == nBestHeight - nBlocks
       IN  IF nBlocks < 0 \/ nStartHeight <= 0
             THEN /\ apc' = "rejected"
                  /\ reply' = InvalidParameter
                  /\ UNCHANGED req
           ELSE /\ req' = [height |-> nStartHeight, range |-> nBlocks]
                /\ apc' = "idle"
                /\ UNCHANGED reply
    /\ UNCHANGED <<chain, heightStart, heightEnd, pindexAt, nFees, nFees_all,
                   nBytes, nTxCount, nTxCount_all, processed, unreadable,
                   nBlocks, pblock, stale, reorged>>
    /\ UNCHANGED <<nvars, dvars, tvars>>

\* ---- the loop over the transactions of one block ---------------------------

\* The loop over tx.vin: the sum of the previous outputs' values of the inputs
\* that are no zerocoin spends, added to nValueIn.
RECURSIVE SumValueIn(_, _)
SumValueIn(vin, j) ==
    IF j > Len(vin) THEN 0
    ELSE (IF vin[j].zc THEN 0 ELSE vin[j].value) + SumValueIn(vin, j + 1)

\* The loop over tx.vout.
RECURSIVE SumValueOut(_, _)
SumValueOut(vout, j) ==
    IF j > Len(vout) THEN 0 ELSE vout[j] + SumValueOut(vout, j + 1)

\* GetTransaction fails for one of the inputs that are no zerocoin spends.
PrevoutMissing(tx) ==
    \E j \in 1..Len(tx.vin) : ~tx.vin[j].zc /\ ~tx.vin[j].found

\* One pass of the loop body for transaction tx; acc holds nValueIn and
\* nValueOut (declared once per block, outside the loop), the sums, and
\* whether the pass threw.
TxStep(acc, tx) ==
    IF IsCoinBase(tx) \/ (IsCoinStake(tx) /\ ~HasZerocoinSpendInputs(tx))
      THEN acc
    ELSE IF PrevoutMissing(tx) THEN [acc EXCEPT !.failed = TRUE]
    ELSE LET vin == acc.nValueIn + SumValueIn(tx.vin, 1)
         IN  IF HasZerocoinSpendInputs(tx)
               THEN [acc EXCEPT !.nValueIn = vin]
             ELSE LET vout == acc.nValueOut + SumValueOut(tx.vout, 1)
                  IN  [nValueIn |-> vin,
                       nValueOut |-> vout,
                       nFees_all |-> acc.nFees_all + (vin - vout),
                       nFees |-> IF HasZerocoinMintOutputs(tx) THEN acc.nFees
                                 ELSE acc.nFees + (vin - vout),
                       nBytes |-> IF HasZerocoinMintOutputs(tx) THEN acc.nBytes
                                  ELSE acc.nBytes + tx.size,
                       failed |-> FALSE]

\* for (const auto& txIn : block.vtx), left by a throw
RECURSIVE TxLoop(_, _, _)
TxLoop(acc, vtx, i) ==
    IF i > Len(vtx) \/ acc.failed THEN acc
    ELSE TxLoop(TxStep(acc, vtx[i]), vtx, i + 1)

\* The object getblockindexstats returns after the loop.
StatsReply(txcount, txcount_all, txbytes, ttlfee, ttlfee_all) ==
    [kind |-> "result", first |-> heightStart, last |-> heightEnd,
     txcount |-> txcount, txcount_all |-> txcount_all, txbytes |-> txbytes,
     ttlfee |-> ttlfee, ttlfee_all |-> ttlfee_all]

\* One pass of while(true): read the block at pindex, count its
\* transactions, run the transaction loop, then follow chainActive.Next or
\* leave the loop and return the object. A block that cannot be read and a
\* previous transaction that cannot be found end the request with a throw.
ProcessBlock ==
    /\ apc = "loop"
    /\ pindexAt # NoIndex
    /\ IF pindexAt = unreadable
         THEN /\ apc' = "failed"
              /\ reply' = DatabaseError
              /\ UNCHANGED <<pindexAt, pblock, nFees, nFees_all, nBytes,
                             nTxCount, nTxCount_all, processed>>
         ELSE LET blk == pblock
                  ntx == Len(blk)
                  acc == TxLoop([nValueIn |-> 0, nValueOut |-> 0,
                                 nFees_all |-> nFees_all, nFees |-> nFees,
                                 nBytes |-> nBytes, failed |-> FALSE], blk, 1)
                  count_all == nTxCount_all + ntx
                  count == IF IsProofOfStake(blk) THEN nTxCount + ntx - 2
                           ELSE nTxCount + ntx - 1
                  next == IF stale THEN NoIndex ELSE ChainNext(pindexAt)
              IN  /\ nTxCount_all' = count_all
                  /\ nTxCount' = count
                  /\ nFees' = acc.nFees
                  /\ nFees_all' = acc.nFees_all
                  /\ nBytes' = acc.nBytes
                  /\ processed' = Append(processed, pindexAt)
                  /\ IF acc.failed
                        THEN /\ apc' = "failed"
                             /\ reply' = DatabaseError
                             /\ UNCHANGED <<pindexAt, pblock>>
                      ELSE IF pindexAt < heightEnd
                        THEN /\ pindexAt' = next
                             /\ pblock' = IF next = NoIndex THEN <<>>
                                          ELSE chain[next + 1]
                             /\ apc' = "loop"
                             /\ UNCHANGED reply
                      ELSE /\ apc' = "done"
                           /\ reply' = StatsReply(count, count_all, acc.nBytes,
                                                  acc.nFees, acc.nFees_all)
                           /\ UNCHANGED <<pindexAt, pblock>>
    /\ UNCHANGED <<chain, req, heightStart, heightEnd, unreadable, nBlocks,
                   stale, reorged>>
    /\ UNCHANGED <<nvars, dvars, tvars>>

ANext == FeeInfo \/ Validate \/ ProcessBlock

\* One getblockindexstats request on a fixed active chain.
InitAggregate == AInit /\ NOff /\ DOff /\ TOff
SpecAggregate == InitAggregate /\ [][ANext]_vars

\* ---- a reorganisation of the active chain during the request ---------------

\* The blocks a reorganisation connects.
ReorgPool == {<<Coinbase>>, <<Coinbase, TxA>>}
\* The chains that keep the blocks of c up to height f and go on with other
\* blocks, up to the height BestHeight.
Reorganised(c, f) ==
    UNION {{SubSeq(c, 1, f + 1) \o new : new \in [1..k -> ReorgPool]} :
              k \in 0..(BestHeight - f)}

\* Another thread reorganises the active chain between two passes of the
\* loop, when cs_main is not held: the blocks above some height f leave
\* the chain and other blocks are connected. pindex keeps pointing to the
\* block it pointed to.
Reorg ==
    /\ apc = "loop"
    /\ ~reorged
    /\ \E f \in 0..(ChainHeight - 1) :
         /\ chain' \in Reorganised(chain, f)
         /\ stale' = (pindexAt # NoIndex /\ pindexAt > f)
    /\ reorged' = TRUE
    /\ UNCHANGED <<req, apc, heightStart, heightEnd, pindexAt, nFees, nFees_all,
                   nBytes, nTxCount, nTxCount_all, processed, unreadable, reply,
                   nBlocks, pblock>>
    /\ UNCHANGED <<nvars, dvars, tvars>>

\* The pass of the loop that follows a null pindex:
\* ReadBlockFromDisk(block, pindex) reads through the null pointer. The
\* behaviour is undefined: the process crashes, or the read fails.
NullRead ==
    /\ apc = "loop"
    /\ pindexAt = NoIndex
    /\ \/ apc' = "aborted" /\ UNCHANGED reply
       \/ apc' = "failed" /\ reply' = DatabaseError
    /\ UNCHANGED <<chain, req, heightStart, heightEnd, pindexAt, nFees,
                   nFees_all, nBytes, nTxCount, nTxCount_all, processed,
                   unreadable, nBlocks, pblock, stale, reorged>>
    /\ UNCHANGED <<nvars, dvars, tvars>>

\* A request with every block readable, during which the chain may be
\* reorganised.
AInitReorg ==
    /\ AInit
    /\ req.range # IntMax
    /\ unreadable = NoIndex
InitReorg == AInitReorg /\ NOff /\ DOff /\ TOff
SpecReorg == InitReorg /\ [][ANext \/ Reorg \/ NullRead]_vars

(***************************************************************************)
(* Part III: UTXOSetDigester                                               *)
(* (ApplyStats, GetUTXOStats, gettxoutsetinfo)                             *)
(***************************************************************************)

\* Bound of the digester model: the number of records a cursor yields.
MaxRecords == 3

\* The outpoints (transaction id, output index) of the store.
Txids == {1, 2}
Indices == {0, 1}
Outpoints == Txids \X Indices
\* The values the fields of a Coin range over.
Heights == 1..3
ScriptPubKeys == {<<>>, <<1>>, <<1, 2>>}
Values == 1..3
\* pcursor->GetBestBlock() and the height mapBlockIndex holds for it.
BestBlock == 9
BestBlockHeight == 3

\* The Coin stored for an outpoint: the outputs of one transaction share
\* nHeight, fCoinBase and fCoinStake.
BaseCoin(h, n) ==
    [nHeight |-> h, fCoinBase |-> (h = 1), fCoinStake |-> FALSE,
     scriptPubKey |-> IF n = 0 THEN <<1>> ELSE <<1, 2>>, nValue |-> h + n]
\* What the cursor yields at one position: the key (hash, n) and the value.
Rec(h, n) == [hash |-> h, n |-> n, coin |-> BaseCoin(h, n)]

\* The cursors: up to MaxRecords records with distinct keys, in any order.
OutpointSeqs ==
    UNION {{f \in [1..k -> Outpoints] :
               \A i, j \in 1..k : i # j => f[i] # f[j]} : k \in 0..MaxRecords}
Cursors == {[i \in DOMAIN f |-> Rec(f[i][1], f[i][2])] : f \in OutpointSeqs}

\* The Coins that differ from c in exactly one field.
OneFieldChanged(c) ==
    {[c EXCEPT !.nHeight = h] : h \in Heights \ {c.nHeight}}
    \cup {[c EXCEPT !.fCoinBase = ~c.fCoinBase]}
    \cup {[c EXCEPT !.fCoinStake = ~c.fCoinStake]}
    \cup {[c EXCEPT !.scriptPubKey = s] : s \in ScriptPubKeys \ {c.scriptPubKey}}
    \cup {[c EXCEPT !.nValue = v] : v \in Values \ {c.nValue}}
\* The same records in another order.
Reordered(A) == {[i \in DOMAIN A |-> A[p[i]]] : p \in Permutations(DOMAIN A)}
\* One field of the Coin of one record changed.
OneOutputChanged(A) ==
    UNION {{[A EXCEPT ![i].coin = c] : c \in OneFieldChanged(A[i].coin)} :
              i \in DOMAIN A}
\* What the cursors of two successive requests yield: the store is the same,
\* or yields its records in another order, or differs in one output.
StorePairs ==
    UNION {{<<A, B>> : B \in Reordered(A) \cup OneOutputChanged(A)} :
              A \in Cursors}

DInit ==
    /\ stores \in StorePairs
    /\ unreadableAt \in 0..MaxRecords
    /\ dcall = 0
    /\ dpc = "idle"
    /\ pos = 0
    /\ prevkey = ZeroHash
    /\ outputs = <<>>
    /\ ss = <<>>
    /\ stats = CCoinsStats
    /\ flushed = <<>>
    /\ replies = <<>>

\* ---- ApplyStats -------------------------------------------------------------

\* Variant: the coinstake flag is left out of the header value.
CodeNoCoinStake(coin) ==
    coin.nHeight * 4 + (IF coin.fCoinBase THEN 2 ELSE 0)
\* VARINT(coin.nHeight * 4 + (coin.fCoinBase ? 2 : 0) + (coin.fCoinStake ? 1 : 0))
Code(coin) ==
    coin.nHeight * 4 + (IF coin.fCoinBase THEN 2 ELSE 0)
    + (IF coin.fCoinStake THEN 1 ELSE 0)
\* ss << script: the length of the script, then its bytes.
SerializedScript(script) == <<Len(script)>> \o script

\* for (const auto& output : outputs), from the i-th entry on; st holds ss,
\* stats and the history of the calls.
RECURSIVE ApplyOutputs(_, _, _)
ApplyOutputs(st, outs, i) ==
    IF i > Len(outs) THEN st
    ELSE ApplyOutputs(
             [st EXCEPT
                 !.ss = @ \o <<outs[i].n + 1>>
                          \o SerializedScript(outs[i].coin.scriptPubKey)
                          \o <<outs[i].coin.nValue>>,
                 !.stats.nTransactionOutputs = @ + 1,
                 !.stats.nTotalAmount = @ + outs[i].coin.nValue],
             outs, i + 1)

\* Variants: the sentinel is not written; the output index is written as
\* it is; every output counts as a transaction.
ApplyStatsNoSentinel(st, hash, outs) ==
    IF outs = <<>> THEN [st EXCEPT !.asserted = TRUE]
    ELSE ApplyOutputs(
             [st EXCEPT !.ss = @ \o <<hash, Code(outs[1].coin)>>,
                        !.stats.nTransactions = @ + 1,
                        !.flushed = Append(@, [hash |-> hash, outputs |-> outs])],
             outs, 1)
ApplyStatsCountsOutputs(st, hash, outs) ==
    IF outs = <<>> THEN [st EXCEPT !.asserted = TRUE]
    ELSE LET s1 == [st EXCEPT !.ss = @ \o <<hash, Code(outs[1].coin)>>,
                              !.stats.nTransactions = @ + Len(outs),
                              !.flushed = Append(@, [hash |-> hash,
                                                     outputs |-> outs])]
             s2 == ApplyOutputs(s1, outs, 1)
         IN  [s2 EXCEPT !.ss = Append(@, 0)]

\* ApplyStats(stats, ss, hash, outputs); outputs is in key order, so
\* outputs.begin() is its first entry.
ApplyStats(st, hash, outs) ==
    IF outs = <<>> THEN [st EXCEPT !.asserted = TRUE]
    ELSE LET s1 == [st EXCEPT !.ss = @ \o <<hash, Code(outs[1].coin)>>,
                              !.stats.nTransactions = @ + 1,
                              !.flushed = Append(@, [hash |-> hash,
                                                     outputs |-> outs])]
             s2 == ApplyOutputs(s1, outs, 1)
         IN  [s2 EXCEPT !.ss = Append(@, 0)]

\* ---- GetUTXOStats and gettxoutsetinfo ---------------------------------------

\* Variant: outputs keeps the order of insertion.
MapInsertAppend(outs, n, coin) == Append(outs, [n |-> n, coin |-> coin])
\* outputs[key.n] = std::move(coin) on a std::map: the entry of key n is
\* replaced, or a new entry is put at its place in key order.
MapInsert(outs, n, coin) ==
    IF \E i \in DOMAIN outs : outs[i].n = n
      THEN [i \in DOMAIN outs |->
               IF outs[i].n = n THEN [n |-> n, coin |-> coin] ELSE outs[i]]
    ELSE LET k == Cardinality({i \in DOMAIN outs : outs[i].n < n})
         IN  SubSeq(outs, 1, k) \o <<[n |-> n, coin |-> coin]>>
             \o SubSeq(outs, k + 1, Len(outs))

\* Variant: a flush before every record but the first.
NeedsFlushEveryRecord(outs, prev, key) == outs # <<>>
\* !outputs.empty() && key.hash != prevkey
NeedsFlush(outs, prev, key) == outs # <<>> /\ key # prev

\* ss.GetHash(): the hash of what was written, taken as free of collisions.
GetHash(written) == [sha256d |-> written]
\* view->EstimateSize()
EstimateSize(store) == Len(store)

\* Variant: the object is filled whatever GetUTXOStats returned.
TxOutSetInfoUnchecked(ok, st) ==
    [height |-> st.nHeight, bestblock |-> st.hashBlock,
     transactions |-> st.nTransactions, txouts |-> st.nTransactionOutputs,
     hash_serialized_2 |-> st.hashSerialized,
     total_amount |-> st.nTotalAmount, disk_size |-> st.nDiskSize]
\* The object gettxoutsetinfo returns: filled from stats when GetUTXOStats
\* returned true, else empty.
EmptyObject == <<>>
TxOutSetInfo(ok, st) ==
    IF ok
      THEN [height |-> st.nHeight, bestblock |-> st.hashBlock,
            transactions |-> st.nTransactions, txouts |-> st.nTransactionOutputs,
            hash_serialized_2 |-> st.hashSerialized,
            total_amount |-> st.nTotalAmount, disk_size |-> st.nDiskSize]
    ELSE EmptyObject

\* Variant: the request goes on with the stats the request before left.
FreshStatsStale == stats
\* CCoinsStats stats; in gettxoutsetinfo
FreshStats == CCoinsStats

\* gettxoutsetinfo up to the loop of GetUTXOStats: a new CCoinsStats, the
\* cursor, a new hash writer, the best block and its height, ss << hashBlock.
StartDigest ==
    /\ dpc = "idle"
    /\ dcall < Len(stores)
    /\ dcall' = dcall + 1
    /\ stats' = [FreshStats EXCEPT !.hashBlock = BestBlock,
                                   !.nHeight = BestBlockHeight]
    /\ ss' = <<BestBlock>>
    /\ prevkey' = ZeroHash
    /\ outputs' = <<>>
    /\ pos' = 1
    /\ flushed' = <<>>
    /\ dpc' = "loop"
    /\ UNCHANGED <<stores, unreadableAt, replies>>
    /\ UNCHANGED <<nvars, avars, tvars>>

\* boost::this_thread::interruption_point() throws: the request ends
\* without a reply.
Interrupt ==
    /\ dpc = "loop"
    /\ pos <= Len(stores[dcall])
    /\ dpc' = "interrupted"
    /\ UNCHANGED <<stores, unreadableAt, dcall, pos, prevkey, outputs, ss,
                   stats, flushed, replies>>
    /\ UNCHANGED <<nvars, avars, tvars>>

\* One pass of while (pcursor->Valid()): the record is read, the buffered
\* group is flushed when the record belongs to another transaction, and the
\* record is buffered; a record that cannot be read ends GetUTXOStats with
\* false, and gettxoutsetinfo returns its object.
CursorStep ==
    /\ dpc = "loop"
    /\ pos <= Len(stores[dcall])
    /\ IF pos = unreadableAt
         THEN /\ replies' = Append(replies, TxOutSetInfo(FALSE, stats))
              /\ dpc' = "idle"
              /\ UNCHANGED <<pos, prevkey, outputs, ss, stats, flushed>>
         ELSE LET key == stores[dcall][pos]
                  st == [ss |-> ss, stats |-> stats, flushed |-> flushed,
                         asserted |-> FALSE]
                  flush == NeedsFlush(outputs, prevkey, key.hash)
                  st1 == IF flush THEN ApplyStats(st, prevkey, outputs) ELSE st
                  outs == IF flush THEN <<>> ELSE outputs
              IN  /\ ss' = st1.ss
                  /\ stats' = st1.stats
                  /\ flushed' = st1.flushed
                  /\ prevkey' = key.hash
                  /\ outputs' = MapInsert(outs, key.n, key.coin)
                  /\ pos' = pos + 1
                  /\ dpc' = IF st1.asserted THEN "aborted" ELSE "loop"
                  /\ UNCHANGED replies
    /\ UNCHANGED <<stores, unreadableAt, dcall>>
    /\ UNCHANGED <<nvars, avars, tvars>>

\* The cursor is exhausted: the buffered group is flushed, the hash and the
\* size are stored, GetUTXOStats returns true and gettxoutsetinfo returns
\* its object.
Finish ==
    /\ dpc = "loop"
    /\ pos > Len(stores[dcall])
    /\ LET st == [ss |-> ss, stats |-> stats, flushed |-> flushed,
                  asserted |-> FALSE]
           st1 == IF outputs # <<>> THEN ApplyStats(st, prevkey, outputs) ELSE st
           final == [st1.stats EXCEPT
                        !.hashSerialized = GetHash(st1.ss),
                        !.nDiskSize = EstimateSize(stores[dcall])]
       IN  /\ ss' = st1.ss
           /\ stats' = final
           /\ flushed' = st1.flushed
           /\ replies' = Append(replies, TxOutSetInfo(TRUE, final))
           /\ dpc' = IF st1.asserted THEN "aborted" ELSE "idle"
    /\ UNCHANGED <<stores, unreadableAt, dcall, pos, prevkey, outputs>>
    /\ UNCHANGED <<nvars, avars, tvars>>

DNext == StartDigest \/ Interrupt \/ CursorStep \/ Finish

\* Two gettxoutsetinfo requests, one after the other.
InitDigest == DInit /\ NOff /\ AOff /\ TOff
SpecDigest == InitDigest /\ [][DNext]_vars

\* A getblockindexstats request, or two gettxoutsetinfo requests.
InitQueries ==
    ((AInit /\ DOff /\ NOff) \/ (DInit /\ AOff /\ NOff)) /\ TOff
SpecQueries == InitQueries /\ [][ANext \/ DNext]_vars

(***************************************************************************)
(* Part IV: getchaintips                                                   *)
(***************************************************************************)
\* The number of entries of mapBlockIndex.
NumNodes == 5
Nodes == 1..NumNodes
\* nullptr.
NoNode == 0

\* The block trees: node 1 is the genesis block, the only node without
\* pprev; every other node points to a node created before it.
Forests ==
    {f \in [Nodes -> 0..NumNodes] :
        /\ f[1] = NoNode
        /\ \A n \in Nodes \ {1} : f[n] \in 1..(n - 1)}

\* The nodes reached from n by following f, n included.
RECURSIVE AncestorsIn(_, _)
AncestorsIn(f, n) ==
    IF n = NoNode THEN {} ELSE {n} \cup AncestorsIn(f, f[n])

\* CBlockIndex::nHeight: the genesis block has height 0, every other block
\* one more than its pprev.
nHeight(n) == Cardinality(AncestorsIn(pprev, n)) - 1

\* CChain::SetTip: vChain[h + 1] is the ancestor of the tip at height h.
RECURSIVE ChainTo(_, _)
ChainTo(f, n) ==
    IF n = NoNode THEN <<>> ELSE Append(ChainTo(f, f[n]), n)

\* The two orders in memory the nodes are allocated in.
AddrOrders == {[n \in Nodes |-> n], [n \in Nodes |-> NumNodes + 1 - n]}

\* enum BlockStatus: the validity levels and the failure flags.
BLOCK_VALID_HEADER == 1
BLOCK_VALID_TREE == 2
BLOCK_VALID_TRANSACTIONS == 3
BLOCK_VALID_SCRIPTS == 5
BLOCK_FAILED_MASK == {"BLOCK_FAILED_VALID", "BLOCK_FAILED_CHILD"}

\* How far a block got: fully validated; transactions received but scripts
\* not checked; header only; and a header not yet connected to the tree
\* whose transaction count is set.
BlockKinds == {"scripts", "transactions", "headers", "unknown"}
LevelOf(k) ==
    CASE k = "scripts" -> BLOCK_VALID_SCRIPTS
      [] k = "transactions" -> BLOCK_VALID_TRANSACTIONS
      [] k = "headers" -> BLOCK_VALID_TREE
      [] k = "unknown" -> BLOCK_VALID_HEADER
ChainTxOf(k) == IF k = "headers" THEN 0 ELSE 1

\* The state getchaintips is called in. The active chain ends at any node
\* and holds fully validated blocks without failure flag. Off the chain, at
\* most one block x was found invalid (BLOCK_FAILED_VALID); its descendants
\* carry BLOCK_FAILED_CHILD when marked, which validation does lazily. At
\* most one branch, from y on, got less far than full validation.
TStart(f, t, a, x, marked, y, k) ==
    /\ pprev = f
    /\ addr = a
    /\ vChain = ChainTo(f, t)
    /\ nStatus = [n \in Nodes |->
          [level |-> IF y # NoNode /\ y \in AncestorsIn(f, n)
                        THEN LevelOf(k) ELSE BLOCK_VALID_SCRIPTS,
           flags |-> IF n = x THEN {"BLOCK_FAILED_VALID"}
                     ELSE IF x # NoNode /\ marked /\ x \in AncestorsIn(f, n)
                          THEN {"BLOCK_FAILED_CHILD"}
                     ELSE {}]]
    /\ nChainTx = [n \in Nodes |->
          IF y # NoNode /\ y \in AncestorsIn(f, n) THEN ChainTxOf(k) ELSE 1]
    /\ tpc = "start"
    /\ setTips = <<>>
    /\ res = <<>>

TInit ==
    \E f \in Forests, t \in Nodes, a \in AddrOrders :
        \E x \in (Nodes \ AncestorsIn(f, t)) \cup {NoNode}, marked \in BOOLEAN,
           y \in (Nodes \ AncestorsIn(f, t)) \cup {NoNode}, k \in BlockKinds :
            /\ x = NoNode => ~marked
            /\ y = NoNode => k = "scripts"
            /\ y # NoNode => k # "scripts"
            /\ TStart(f, t, a, x, marked, y, k)

\* CChain::Height and CChain::Tip.
Height == Len(vChain) - 1
Tip == vChain[Len(vChain)]

\* CChain::Contains: the block of the active chain at the node's height is
\* the node.
Contains(n) == nHeight(n) <= Height /\ vChain[nHeight(n) + 1] = n

\* CChain::FindFork: walk pprev until a block of the active chain is met.
RECURSIVE FindFork(_)
FindFork(n) ==
    IF n = NoNode THEN NoNode
    ELSE IF Contains(n) THEN n
    ELSE FindFork(pprev[n])

\* CBlockIndex::IsValid: no failure flag and the level reached.
IsValid(n, nUpTo) ==
    IF nStatus[n].flags \cap BLOCK_FAILED_MASK # {} THEN FALSE
    ELSE nStatus[n].level >= nUpTo

\* Variant of the comparator without the pointer comparison.
CompareHeightsOnly(a, b) == nHeight(a) > nHeight(b)

\* CompareBlocksByHeight: higher blocks first, equal heights by address.
CompareBlocksByHeight(a, b) ==
    IF nHeight(a) # nHeight(b) THEN nHeight(a) > nHeight(b)
    ELSE addr[a] < addr[b]

\* The equivalence std::set derives from its comparator.
Equivalent(a, b) == ~CompareBlocksByHeight(a, b) /\ ~CompareBlocksByHeight(b, a)

\* The place of x in the ordered sequence s.
Placed(s, x) ==
    LET k == Cardinality({i \in 1..Len(s) : CompareBlocksByHeight(s[i], x)})
    IN  SubSeq(s, 1, k) \o <<x>> \o SubSeq(s, k + 1, Len(s))

\* Variant of insert that keeps equivalent elements.
SetInsertDuplicates(s, x) == Placed(s, x)

\* std::set::insert: nothing happens when an equivalent element is present.
SetInsert(s, x) ==
    IF \E i \in 1..Len(s) : Equivalent(s[i], x) THEN s ELSE Placed(s, x)

\* std::set::erase(key).
SetErase(s, x) == SelectSeq(s, LAMBDA e : ~Equivalent(e, x))

\* The first loop: every entry of mapBlockIndex from the n-th on is inserted.
RECURSIVE InsertNodes(_, _)
InsertNodes(s, n) ==
    IF n > NumNodes THEN s ELSE InsertNodes(SetInsert(s, n), n + 1)

\* Variant of the second loop that erases nothing.
EraseParentsNever(s, n) == s

\* The second loop: the pprev of every entry from the n-th on is erased.
RECURSIVE EraseParents(_, _)
EraseParents(s, n) ==
    IF n > NumNodes THEN s
    ELSE EraseParents(IF pprev[n] # NoNode THEN SetErase(s, pprev[n]) ELSE s,
                      n + 1)

\* Variant of Status that tests the validity before the active chain.
StatusValidityFirst(n) ==
    IF nStatus[n].flags \cap BLOCK_FAILED_MASK # {} THEN "invalid"
    ELSE IF nChainTx[n] = 0 THEN "headers-only"
    ELSE IF IsValid(n, BLOCK_VALID_SCRIPTS) THEN "valid-fork"
    ELSE IF Contains(n) THEN "active"
    ELSE IF IsValid(n, BLOCK_VALID_TREE) THEN "valid-headers"
    ELSE "unknown"

\* The status of one tip, by the first test that succeeds.
Status(n) ==
    IF Contains(n) THEN "active"
    ELSE IF nStatus[n].flags \cap BLOCK_FAILED_MASK # {} THEN "invalid"
    ELSE IF nChainTx[n] = 0 THEN "headers-only"
    ELSE IF IsValid(n, BLOCK_VALID_SCRIPTS) THEN "valid-fork"
    ELSE IF IsValid(n, BLOCK_VALID_TREE) THEN "valid-headers"
    ELSE "unknown"

\* Variant of branchLen: the distance from the genesis block.
BranchLenFromGenesis(n) == nHeight(n)

\* const int branchLen: the distance from the fork point.
BranchLen(n) == nHeight(n) - nHeight(FindFork(n))

\* The object pushed for one tip; the hash stands for the node.
Descriptor(n) ==
    [height |-> nHeight(n), hash |-> n,
     branchlen |-> BranchLen(n), status |-> Status(n)]

\* The set of tips is built: all nodes, minus every pprev, plus the tip of
\* the active chain.
CollectTips ==
    /\ tpc = "start"
    /\ setTips' = SetInsert(EraseParents(InsertNodes(<<>>, 1), 1), Tip)
    /\ tpc' = "loop"
    /\ UNCHANGED <<pprev, addr, nStatus, nChainTx, vChain, res>>
    /\ UNCHANGED <<nvars, avars, dvars>>

\* One pass of the loop over setTips; after the last one res is returned.
DescribeTip ==
    /\ tpc = "loop"
    /\ Len(res) < Len(setTips)
    /\ res' = Append(res, Descriptor(setTips[Len(res) + 1]))
    /\ tpc' = IF Len(res') = Len(setTips) THEN "done" ELSE "loop"
    /\ UNCHANGED <<pprev, addr, nStatus, nChainTx, vChain, setTips>>
    /\ UNCHANGED <<nvars, avars, dvars>>

TNext == CollectTips \/ DescribeTip
InitTips == TInit /\ NOff /\ AOff /\ DOff
SpecTips == InitTips /\ [][TNext]_vars

(***************************************************************************)
(* Properties of the TipChangeNotifier                                     *)
(***************************************************************************)

\* The step in which waiter w returns from its wait operation.
Returns(w) == pc[w] \in {"check", "recheck"} /\ pc'[w] = "done"
\* The condition waiter w waits for, on the stored snapshot.
CondHolds(w) ==
    CASE kind[w] = "new" -> latestblock # previous[w]
      [] kind[w] = "hash" -> latestblock.hash = target[w]
      [] kind[w] = "height" -> latestblock.height >= target[w]

\* C1: when waitfornewblock returns, the snapshot it returns is the one stored
\* at that moment, and unless shutdown was signalled or the timeout elapsed
\* it differs in hash or in height from the snapshot read when the call took
\* the lock.
C1_NewBlockDiffers ==
    [][\A w \in Waiters :
         (kind[w] = "new" /\ Returns(w)) =>
            /\ block'[w] = latestblock'
            /\ (running /\ ~expired[w]) =>
                  \/ block'[w].hash # block[w].hash
                  \/ block'[w].height # block[w].height]_vars
C1_Witness ==
    \E w \in Waiters :
        /\ kind[w] = "new" /\ pc[w] = "done"
        /\ running /\ ~expired[w]
        /\ block[w] # previous[w]

\* C3: a notify with a tip present leaves both fields of the stored snapshot
\* equal to the new tip when its write ends, and its notify_all leaves no
\* waiter blocked that was blocked when it ran.
C3_NotifyOverwritesAndWakes ==
    [][\A t \in Notifiers :
         /\ (npc[t] = "height" /\ npc'[t] = "notify") => latestblock' = pindex[t]
         /\ (npc[t] = "notify" /\ npc'[t] # "notify") =>
               \A w \in Waiters : pc[w] = "blocked" => pc'[w] = "woken"]_vars
\* Both waiters woken together although the snapshot still equals the
\* baseline of a waitfornewblock among them.
C3_Witness ==
    /\ \A w \in Waiters : pc[w] = "woken" /\ ~expired[w]
    /\ \E w \in Waiters : kind[w] = "new" /\ block[w] = latestblock
    /\ nNotify > 0 /\ npc[ChainThread] = "idle" /\ running

\* C4: a waitforblock / waitforblockheight that has returned while shutdown
\* was not signalled and its timeout had not elapsed returned a snapshot
\* whose hash equals the target, respectively whose height is >= the target.
C4_TargetReached ==
    \A w \in Waiters :
        (pc[w] = "done" /\ running /\ ~expired[w]) =>
            /\ kind[w] = "hash" => block[w].hash = target[w]
            /\ kind[w] = "height" => block[w].height >= target[w]
C4_Witness ==
    /\ \E w \in Waiters :
          kind[w] = "hash" /\ pc[w] = "done" /\ running /\ ~expired[w]
          /\ notified[w]
    /\ \E w \in Waiters :
          kind[w] = "height" /\ pc[w] = "done" /\ running /\ ~expired[w]
          /\ notified[w]

\* C5: every snapshot a wait operation holds or returns is the initial
\* snapshot or the (hash, height) pair of one block passed to notify, never
\* the hash of one notify with the height of another.
C5_NoTornSnapshot ==
    \A w \in Waiters :
        (pc[w] # "idle" /\ (pc[w] = "done" \/ kind[w] = "new")) =>
            block[w] \in Snapshots
\* A waiter has returned an intact snapshot while a later notify is half-way
\* through its write.
C5_Witness ==
    \E w \in Waiters :
        /\ pc[w] = "done" /\ block[w] \in BlockIndex
        /\ npc[ChainThread] = "height" /\ latestblock \notin Snapshots

\* C6: a woken waiter re-evaluates its condition under the lock; it returns
\* only if the condition holds, shutdown is signalled or the timeout elapsed,
\* and otherwise it blocks again.
C6_RecheckAfterWake ==
    [][\A w \in Waiters :
         /\ (pc[w] = "recheck" /\ pc'[w] = "done") =>
               (CondHolds(w) \/ ~running \/ expired[w])
         /\ (pc[w] = "recheck" /\ ~(CondHolds(w) \/ ~running \/ expired[w])) =>
               (mutex = w /\ pc'[w] \in {"recheck", "blocking"})
         /\ (pc[w] = "blocking" /\ ~expired[w]) =>
               pc'[w] \in {"blocking", "blocked"}]_vars
\* A waiter woken by a notify that installed a snapshot not satisfying its
\* condition is re-evaluating the condition.
C6_Witness ==
    \E w \in Waiters :
        /\ pc[w] = "recheck" /\ kind[w] # "new"
        /\ notified[w] /\ latestblock # previous[w]
        /\ ~CondHolds(w) /\ running /\ ~expired[w]

\* C7: when waitforblockheight takes the lock and the stored height is
\* already >= its target, its first evaluation of the condition returns the
\* stored snapshot, whatever the timeout.
C7_HeightAlreadyReached ==
    [][\A w \in Waiters :
         (kind[w] = "height" /\ pc[w] = "check"
            /\ latestblock.height >= target[w] /\ pc'[w] # pc[w]) =>
               (pc'[w] = "done" /\ block'[w] = latestblock)]_vars
C7_Witness ==
    \E w \in Waiters :
        /\ kind[w] = "height" /\ pc[w] = "done"
        /\ running /\ ~expired[w] /\ ~notified[w]
        /\ block[w] = previous[w] /\ block[w].height >= target[w]

\* C2: once the shutdown flag is set, every waiter blocked at that moment and
\* every waiter that evaluates its condition for the first time afterwards
\* returns, whatever its timeout and without any further tip change.
C2_ShutdownReleasesWaiters ==
    \A w \in Waiters :
        (~running /\ (pc[w] = "check" \/ w \in blockedAtStop)) ~> (pc[w] = "done")
\* Both waiters were blocked when the flag was set, one of them without
\* timeout, and both have returned the unchanged snapshot.
C2_Witness ==
    /\ ~running /\ blockedAtStop = Waiters
    /\ \A w \in Waiters : pc[w] = "done" /\ ~expired[w] /\ block[w] = previous[w]
    /\ \E w \in Waiters : timeout[w] = 0

\* C8: a wait operation called with a nonzero timeout eventually returns,
\* with or without notify and shutdown; and if no notify ran during the call,
\* it returns the snapshot that was stored when the call took the lock.
C8_TimedWaitReturns ==
    /\ \A w \in Waiters :
          (timeout[w] # 0 /\ pc[w] # "idle") ~> (pc[w] = "done")
    /\ [](\A w \in Waiters :
            (timeout[w] # 0 /\ pc[w] = "done" /\ ~notified[w]) =>
                block[w] = previous[w])
\* A timed wait has returned on its deadline alone: no notify, no shutdown.
C8_Witness ==
    \E w \in Waiters :
        /\ timeout[w] # 0 /\ pc[w] = "done" /\ expired[w]
        /\ ~notified[w] /\ running /\ nNotify = 0
        /\ block[w] = previous[w]

\* C27: no tip-change wakeup is lost. A waiter in a call whose condition
\* holds on the stored snapshot eventually returns, unless the stored
\* snapshot stops satisfying the condition; this wherever the waiter was
\* when the snapshot was installed: holding the lock before or after its
\* check, blocked, or woken. For waitfornewblock the condition is a change
\* against the baseline read when the call took the lock.
C27_NoLostWakeup ==
    \A w \in Waiters :
        (InCall(w) /\ CondHolds(w)) ~> (pc[w] = "done" \/ ~CondHolds(w))
\* A waiter without timeout that was in its call while a notify ran has
\* returned a snapshot that satisfies its condition, the process running.
C27_Witness ==
    \E w \in Waiters :
        /\ timeout[w] = 0 /\ pc[w] = "done" /\ notified[w] /\ running
        /\ CondHolds(w) /\ block[w] = latestblock /\ block[w] # previous[w]

(***************************************************************************)
(* Properties of the RangeAggregator                                       *)
(***************************************************************************)

\* An ordinary transaction: no coinbase, no pure coinstake, no zerocoin
\* spend inputs.
Ordinary(tx) ==
    ~IsCoinBase(tx) /\ ~IsCoinStake(tx) /\ ~HasZerocoinSpendInputs(tx)
\* The fee of a transaction: its inputs' values minus its outputs' values.
OwnFee(tx) == SumValueIn(tx.vin, 1) - SumValueOut(tx.vout, 1)
RECURSIVE BlockFees(_, _)
BlockFees(blk, i) ==
    IF i > Len(blk) THEN 0
    ELSE (IF Ordinary(blk[i]) THEN OwnFee(blk[i]) ELSE 0) + BlockFees(blk, i + 1)
RECURSIVE RangeFees(_, _)
RangeFees(hs, i) ==
    IF i > Len(hs) THEN 0
    ELSE BlockFees(chain[hs[i] + 1], 1) + RangeFees(hs, i + 1)

\* C9: when the request is done, nFees_all is the sum, over the ordinary
\* transactions of the blocks read, of each transaction's own fee (the values
\* of its own inputs minus the values of its own outputs).
C9_FeesAllIsSumOfOwnFees ==
    apc = "done" => nFees_all = RangeFees(processed, 1)

\* C10: when an accepted request (height, range) is done, the blocks read are
\* exactly those at heights height, height+1, ..., height+range-1, each once,
\* in ascending order.
C10_ReadsRequestedRange ==
    apc = "done" =>
        /\ Len(processed) = req.range
        /\ \A i \in 1..Len(processed) : processed[i] = req.height + i - 1

\* The number of transactions of blk, from the i-th on, that are neither
\* coinbase nor coinstake.
RECURSIVE CountPlain(_, _)
CountPlain(blk, i) ==
    IF i > Len(blk) THEN 0
    ELSE (IF IsCoinBase(blk[i]) \/ IsCoinStake(blk[i]) THEN 0 ELSE 1)
         + CountPlain(blk, i + 1)
RECURSIVE RangeCountPlain(_, _)
RangeCountPlain(hs, i) ==
    IF i > Len(hs) THEN 0
    ELSE CountPlain(chain[hs[i] + 1], 1) + RangeCountPlain(hs, i + 1)
RECURSIVE RangeCountAll(_, _)
RangeCountAll(hs, i) ==
    IF i > Len(hs) THEN 0
    ELSE Len(chain[hs[i] + 1]) + RangeCountAll(hs, i + 1)

\* C11: the object returned for a processed range carries in txcount_all the
\* number of transactions of the blocks read and in txcount the number of
\* those that are neither coinbase nor coinstake; for a single block made of
\* one coinbase and one coinstake it carries txcount 0, txcount_all 2 and
\* ttlfee 0.
C11_TransactionCounts ==
    apc = "done" =>
        /\ reply.txcount_all = RangeCountAll(processed, 1)
        /\ reply.txcount = RangeCountPlain(processed, 1)
        /\ (Len(processed) = 1 /\ chain[processed[1] + 1] = <<Coinbase, Coinstake>>)
              => (reply.txcount = 0 /\ reply.txcount_all = 2 /\ reply.ttlfee = 0)
C11_Witness ==
    /\ apc = "done"
    /\ Len(processed) = 1
    /\ chain[processed[1] + 1] = <<Coinbase, Coinstake>>
    /\ reply.txcount = 0
    /\ reply.txcount_all = 2
    /\ reply.ttlfee = 0

\* The accumulators of the transaction loop of blk before and after its i-th
\* transaction.
AccBefore(blk, i) ==
    TxLoop([nValueIn |-> 0, nValueOut |-> 0, nFees_all |-> 0, nFees |-> 0,
            nBytes |-> 0, failed |-> FALSE], SubSeq(blk, 1, i - 1), 1)
AccAfter(blk, i) == TxStep(AccBefore(blk, i), blk[i])

\* C12: in every block read, an ordinary transaction with mint outputs adds
\* its own fee to nFees_all and nothing to nFees and nBytes; every other
\* ordinary transaction adds its own fee to both nFees and nFees_all and its
\* serialized size to nBytes.
C12_MintExcludedFromFees ==
    \A k \in 1..Len(processed) :
        LET blk == chain[processed[k] + 1]
        IN  \A i \in 1..Len(blk) :
                LET before == AccBefore(blk, i)
                    after == AccAfter(blk, i)
                    tx == blk[i]
                IN  (Ordinary(tx) /\ ~before.failed /\ ~after.failed) =>
                        IF HasZerocoinMintOutputs(tx)
                          THEN /\ after.nFees_all - before.nFees_all = OwnFee(tx)
                               /\ after.nFees = before.nFees
                               /\ after.nBytes = before.nBytes
                          ELSE /\ after.nFees_all - before.nFees_all = OwnFee(tx)
                               /\ after.nFees - before.nFees = OwnFee(tx)
                               /\ after.nBytes - before.nBytes = tx.size

\* The request names a range that is not positive, starts above the best
\* height, or ends (at height + range - 1) above the best height.
InvalidRange(r) ==
    \/ r.range < 1
    \/ r.height > ChainHeight
    \/ r.range - 1 > ChainHeight - r.height

MeetsMissingPrevout(blk) ==
    \E i \in 1..Len(blk) :
        /\ ~IsCoinBase(blk[i])
        /\ ~(IsCoinStake(blk[i]) /\ ~HasZerocoinSpendInputs(blk[i]))
        /\ PrevoutMissing(blk[i])

RECURSIVE RunsUpTo(_, _)
RunsUpTo(s, i) ==
    IF i = 0 THEN <<>>
    ELSE LET r == RunsUpTo(s, i - 1)
         IN  IF i > 1 /\ s[i].hash = s[i - 1].hash
               THEN [r EXCEPT ![Len(r)] = Append(@, s[i])]
             ELSE Append(r, <<s[i]>>)
\* The records held by a buffer or a flushed group of transaction id h.
RecordsOf(h, outs) ==
    {[hash |-> h, n |-> outs[i].n, coin |-> outs[i].coin] : i \in DOMAIN outs}
\* The buffer or flushed group holds exactly the records of the run.
HoldsRun(h, outs, run) ==
    /\ Len(outs) = Len(run)
    /\ RecordsOf(h, outs) = {run[i] : i \in DOMAIN run}
\* The request in progress, or the last one, has returned statistics.
Succeeded ==
    /\ dpc = "idle"
    /\ dcall >= 1
    /\ Len(replies) = dcall
    /\ DOMAIN replies[dcall] # {}

\* C15: while the cursor is read, the flushed groups are, one by one and in
\* cursor order, the maximal runs of equal transaction id that have ended,
\* each with exactly its records, and the buffer holds the run in progress;
\* after a successful request the flushed groups are all the maximal runs of
\* the cursor. No empty group is flushed.
C15_FlushesMaximalRuns ==
    /\ dpc # "aborted"
    /\ \A k \in 1..Len(flushed) : flushed[k].outputs # <<>>
    /\ dpc = "loop" =>
           LET runs == RunsUpTo(stores[dcall], pos - 1)
           IN  IF runs = <<>> THEN flushed = <<>> /\ outputs = <<>>
               ELSE /\ Len(flushed) = Len(runs) - 1
                    /\ \A k \in 1..Len(flushed) :
                           HoldsRun(flushed[k].hash, flushed[k].outputs, runs[k])
                    /\ HoldsRun(prevkey, outputs, runs[Len(runs)])
    /\ Succeeded =>
           LET runs == RunsUpTo(stores[dcall], Len(stores[dcall]))
           IN  /\ Len(flushed) = Len(runs)
               /\ \A k \in 1..Len(flushed) :
                      HoldsRun(flushed[k].hash, flushed[k].outputs, runs[k])
C15_Witness ==
    /\ Succeeded
    /\ Len(flushed) = 2
    /\ Len(stores[dcall]) = 3
    /\ \E k \in 1..2 : Len(flushed[k].outputs) = 2

\* The entry of lowest output index of a non-empty set of map entries.
LowestIndex(S) == CHOOSE o \in S : \A q \in S : o.n <= q.n
\* What the claim says is fed for the records S of a group, lowest output
\* index first: output index + 1, script bytes, amount.
RECURSIVE FedRecords(_)
FedRecords(S) ==
    IF S = {} THEN <<>>
    ELSE LET o == LowestIndex(S)
         IN  <<o.n + 1, Len(o.coin.scriptPubKey)>> \o o.coin.scriptPubKey
             \o <<o.coin.nValue>> \o FedRecords(S \ {o})
\* What the claim says is fed for one flushed group: the transaction id, the
\* header value of the first record, the records, the sentinel 0.
FedGroup(g) ==
    LET S == {g.outputs[i] : i \in DOMAIN g.outputs}
        first == LowestIndex(S).coin
    IN  <<g.hash,
          first.nHeight * 4 + 2 * (IF first.fCoinBase THEN 1 ELSE 0)
          + (IF first.fCoinStake THEN 1 ELSE 0)>>
        \o FedRecords(S) \o <<0>>
RECURSIVE FedGroups(_, _)
FedGroups(groups, k) ==
    IF k = 0 THEN <<>> ELSE FedGroups(groups, k - 1) \o FedGroup(groups[k])

\* C16: what has been written to the hash is the best block followed, for
\* each flushed group in turn, by exactly: the transaction id; the header
\* value height * 4 + 2 * coinbase + coinstake of the group's first record;
\* for each record in key order, output index + 1, the script bytes and the
\* amount; the sentinel 0.
C16_FlushFeedsGroup ==
    dcall >= 1 => ss = <<BestBlock>> \o FedGroups(flushed, Len(flushed))
C16_Witness ==
    /\ Succeeded
    /\ Len(flushed) = 2
    /\ \E i \in 1..(Len(stores[dcall]) - 1) :
           /\ stores[dcall][i].hash = stores[dcall][i + 1].hash
           /\ stores[dcall][i].n > stores[dcall][i + 1].n

\* Both requests have returned statistics.
BothSucceeded ==
    /\ Len(replies) = 2
    /\ DOMAIN replies[1] # {}
    /\ DOMAIN replies[2] # {}
\* The fields of a Coin, and those in which two Coins differ.
CoinFields == {"nHeight", "fCoinBase", "fCoinStake", "scriptPubKey", "nValue"}
FieldsChanged(c, d) == {f \in CoinFields : c[f] # d[f]}
\* The cursors A and B yield the same keys in the same order and differ in
\* exactly one field of the Coin at position i only.
DiffersAt(A, B, i) ==
    /\ Len(A) = Len(B)
    /\ i \in DOMAIN A
    /\ A[i].hash = B[i].hash
    /\ A[i].n = B[i].n
    /\ Cardinality(FieldsChanged(A[i].coin, B[i].coin)) = 1
    /\ \A j \in DOMAIN A : j # i => A[j] = B[j]
\* The positions of the maximal run of equal transaction id around i.
RunAround(A, i) ==
    {j \in DOMAIN A :
        \A k \in DOMAIN A :
            ((j <= k /\ k <= i) \/ (i <= k /\ k <= j)) => A[k].hash = A[i].hash}
\* The record at position i has the lowest output index of its run.
FirstOfGroup(A, i) == \A j \in RunAround(A, i) : A[i].n <= A[j].n

\* C17 (as stated): two stores with the same best block that differ in
\* exactly one output's value, script, height, coinbase flag or coinstake
\* flag, whatever the position of the output inside its group, get
\* different hashes.
C17_AnyFieldChangesHash ==
    (BothSucceeded /\ \E i \in DOMAIN stores[1] : DiffersAt(stores[1], stores[2], i))
        => replies[1].hash_serialized_2 # replies[2].hash_serialized_2

\* C17 (amended): two stores with the same best block get different hashes
\* when they differ in exactly one output's value or script, whatever the
\* position of the output inside its group, or in the height, coinbase flag
\* or coinstake flag of the output of lowest index of its group.
C17_ValueScriptOrFirstHeaderChangesHash ==
    BothSucceeded =>
        \A i \in DOMAIN stores[1] :
            (/\ DiffersAt(stores[1], stores[2], i)
             /\ \/ FieldsChanged(stores[1][i].coin, stores[2][i].coin)
                      \subseteq {"scriptPubKey", "nValue"}
                \/ FirstOfGroup(stores[1], i))
                => replies[1].hash_serialized_2 # replies[2].hash_serialized_2
C17_Witness ==
    /\ BothSucceeded
    /\ \E i \in DOMAIN stores[1] :
           /\ DiffersAt(stores[1], stores[2], i)
           /\ FieldsChanged(stores[1][i].coin, stores[2][i].coin) = {"fCoinStake"}
           /\ FirstOfGroup(stores[1], i)
           /\ Cardinality(RunAround(stores[1], i)) = 2
    /\ replies[1].hash_serialized_2 # replies[2].hash_serialized_2

\* The records of each transaction id are next to each other in the cursor.
Contiguous(A) ==
    \A i, j, k \in DOMAIN A :
        (i < j /\ j < k /\ A[i].hash = A[k].hash) => A[j].hash = A[i].hash
\* The transaction ids of the groups, in cursor order.
GroupOrder(A) ==
    LET runs == RunsUpTo(A, Len(A)) IN [k \in DOMAIN runs |-> runs[k][1].hash]
\* The two cursors yield the same records.
SameRecords(A, B) ==
    /\ Len(A) = Len(B)
    /\ {A[i] : i \in DOMAIN A} = {B[i] : i \in DOMAIN B}
\* The two replies agree on hash, transactions, outputs and total amount.
SameDigest(r1, r2) ==
    /\ r1.hash_serialized_2 = r2.hash_serialized_2
    /\ r1.transactions = r2.transactions
    /\ r1.txouts = r2.txouts
    /\ r1.total_amount = r2.total_amount

\* C18: two cursors over the same records that keep every group contiguous
\* and the groups in the same order, but yield the records inside a group in
\* different orders, give the same hash, transaction count, output count and
\* total amount.
C18_OrderInsideGroupIrrelevant ==
    (/\ BothSucceeded
     /\ SameRecords(stores[1], stores[2])
     /\ Contiguous(stores[1])
     /\ Contiguous(stores[2])
     /\ GroupOrder(stores[1]) = GroupOrder(stores[2]))
        => SameDigest(replies[1], replies[2])
C18_Witness ==
    /\ BothSucceeded
    /\ SameRecords(stores[1], stores[2])
    /\ Contiguous(stores[1])
    /\ Contiguous(stores[2])
    /\ GroupOrder(stores[1]) = GroupOrder(stores[2])
    /\ Len(GroupOrder(stores[1])) = 2
    /\ stores[1] # stores[2]
    /\ SameDigest(replies[1], replies[2])

\* The sum of the values of the records of a cursor, from the i-th on.
RECURSIVE SumValues(_, _)
SumValues(A, i) ==
    IF i > Len(A) THEN 0 ELSE A[i].coin.nValue + SumValues(A, i + 1)

\* C19: after a successful request over a cursor whose groups are
\* contiguous, txouts is the number of records, total_amount the sum of
\* their values and transactions the number of distinct transaction ids.
C19_CountsAndTotal ==
    (Succeeded /\ Contiguous(stores[dcall])) =>
        /\ replies[dcall].txouts = Len(stores[dcall])
        /\ replies[dcall].total_amount = SumValues(stores[dcall], 1)
        /\ replies[dcall].transactions =
               Cardinality({stores[dcall][i].hash : i \in DOMAIN stores[dcall]})
C19_Witness ==
    /\ Succeeded
    /\ Contiguous(stores[dcall])
    /\ Len(stores[dcall]) = 3
    /\ replies[dcall].txouts = 3
    /\ replies[dcall].transactions = 2

\* C20: two requests over the same store return the same hash, transaction
\* count, output count and total amount; each request starts its loop with
\* the counters at 0, an empty buffer and a hash writer that holds the best
\* block only.
C20_RepeatedDigestIdentical ==
    /\ (BothSucceeded /\ stores[1] = stores[2])
           => SameDigest(replies[1], replies[2])
    /\ (dpc = "loop" /\ pos = 1) =>
           /\ stats.nTransactions = 0
           /\ stats.nTransactionOutputs = 0
           /\ stats.nTotalAmount = 0
           /\ outputs = <<>>
           /\ ss = <<BestBlock>>
C20_Witness ==
    /\ BothSucceeded
    /\ stores[1] = stores[2]
    /\ Len(stores[1]) >= 2
    /\ replies[1].transactions >= 2
    /\ SameDigest(replies[1], replies[2])

\* C29: whenever validaterange has returned without an error, the range it
\* stored satisfies minHeightStart <= heightStart <= heightEnd <= best
\* height, whatever the requested starting height.
C29_ValidatedRangeOrdered ==
    apc \in {"loop", "done", "failed"} =>
        /\ minHeightStart <= heightStart
        /\ heightStart <= heightEnd
        /\ heightEnd <= ChainHeight

\* C26: an accepted getfeeinfo(n) returns statistics over the last n blocks
\* of the active chain: the blocks read are those at heights best - n + 1,
\* ..., best, the last one being the tip.
C26_FeeInfoLastBlocks ==
    (apc = "done" /\ nBlocks # NoIndex) =>
        /\ Len(processed) = nBlocks
        /\ \A i \in 1..Len(processed) :
               processed[i] = ChainHeight - nBlocks + i

\* C28: while the chain may be reorganised between two passes of the loop,
\* the successor obtained after a block at a height below heightEnd exists
\* and is the block of the active chain one height up; no pass of the loop
\* starts with a null pindex.
C28_SuccessorExistsUnderReorg ==
    /\ apc = "loop" => pindexAt # NoIndex
    /\ (apc = "loop" /\ processed # <<>>) =>
           /\ pindexAt = processed[Len(processed)] + 1
           /\ (~stale => pblock = chain[pindexAt + 1])

(***************************************************************************)
(* Properties of getchaintips                                              *)
(***************************************************************************)
\* The nodes no other node names as pprev.
Childless == {n \in Nodes : \A m \in Nodes : pprev[m] # n}
\* The nodes of the active chain.
OnActiveChain == {vChain[i] : i \in 1..Len(vChain)}
\* The nodes the reply describes.
Reported == {res[i].hash : i \in 1..Len(res)}
\* The tree R -> A -> B -> C with the fork A -> D, as nodes 1 to 5.
ExampleForest == <<NoNode, 1, 2, 3, 2>>
ExampleCalled == pprev = ExampleForest /\ Tip = 4

\* C21: the set of tips holds exactly the nodes no other node names as
\* parent, plus the active tip, and these are the nodes reported; for
\* R -> A -> B -> C (C active) with the fork A -> D exactly C and D.
C21_ReportedAreChildlessPlusTip ==
    /\ tpc \in {"loop", "done"} =>
           {setTips[i] : i \in 1..Len(setTips)} = Childless \cup {Tip}
    /\ tpc = "done" => Reported = Childless \cup {Tip}
    /\ (tpc = "done" /\ ExampleCalled) => Reported = {4, 5}
\* The example tree was asked for and answered.
C21_Witness ==
    /\ tpc = "done" /\ ExampleCalled
    /\ Len(res) = 2 /\ res[1].hash = 4 /\ res[2].hash = 5

\* How many descriptors name node n.
TimesReported(n) == Cardinality({i \in 1..Len(res) : res[i].hash = n})

\* C22: the active tip is reported exactly once, when it is childless and
\* when it has descendants in the index.
C22_ActiveTipOnce ==
    tpc = "done" => TimesReported(Tip) = 1
\* An active tip with descendants was reported, besides two more tips.
C22_Witness ==
    /\ tpc = "done" /\ Tip \notin Childless /\ TimesReported(Tip) = 1
    /\ Len(res) >= 3

\* The status the rules give node n: on the active chain; else the node or
\* one of its ancestors carries a failure flag; else no validated
\* transactions; else validated up to scripts; else up to the header tree.
RuleStatus(n) ==
    IF n \in OnActiveChain THEN "active"
    ELSE IF \E a \in AncestorsIn(pprev, n) : nStatus[a].flags # {} THEN "invalid"
    ELSE IF nChainTx[n] = 0 THEN "headers-only"
    ELSE IF nStatus[n].level >= BLOCK_VALID_SCRIPTS THEN "valid-fork"
    ELSE IF nStatus[n].level >= BLOCK_VALID_TREE THEN "valid-headers"
    ELSE "unknown"

\* C23: every descriptor carries the status of the first rule that matches:
\* active when on the active chain, invalid when the tip or any of its
\* ancestors carries an invalid flag, then headers-only, valid-fork,
\* valid-headers, unknown.
C23_StatusByFirstRule ==
    tpc = "done" => \A i \in 1..Len(res) : res[i].status = RuleStatus(res[i].hash)

\* The greatest element of a nonempty set of numbers.
Highest(S) == CHOOSE h \in S : \A g \in S : g <= h
\* The height of the highest ancestor of n, n included, on the active chain.
ForkHeight(n) ==
    Highest({nHeight(a) : a \in AncestorsIn(pprev, n) \cap OnActiveChain})

\* C24: branchlen is the height of the tip minus the height of its highest
\* ancestor, itself included, on the active chain; in the example C gets 0
\* and D gets height(D) - height(A).
C24_BranchLength ==
    /\ tpc = "done" =>
           \A i \in 1..Len(res) :
               res[i].branchlen = res[i].height - ForkHeight(res[i].hash)
    /\ (tpc = "done" /\ ExampleCalled) =>
           /\ res[1].branchlen = 0
           /\ res[2].branchlen = nHeight(5) - nHeight(2)
\* A tip two or more blocks away from the active chain was described.
C24_Witness ==
    /\ tpc = "done"
    /\ \E i \in 1..Len(res) :
           /\ res[i].branchlen >= 2
           /\ res[i].branchlen = res[i].height - ForkHeight(res[i].hash)

\* C25: the descriptors come by non-increasing height, and of two distinct
\* tips of equal height both are reported.
C25_OrderedByHeight ==
    tpc = "done" =>
        /\ \A i, j \in 1..Len(res) : i < j => res[i].height >= res[j].height
        /\ \A a, b \in Childless \cup {Tip} :
               (a # b /\ nHeight(a) = nHeight(b)) => {a, b} \subseteq Reported
\* Two tips of equal height were reported, in the order of their addresses,
\* which is the reverse of their order in the index.
C25_Witness ==
    /\ tpc = "done"
    /\ \E i \in 1..Len(res) : \E j \in (i + 1)..Len(res) :
           /\ res[i].height = res[j].height
           /\ res[i].hash # res[j].hash
           /\ res[i].hash > res[j].hash

\* C30: over a single-rooted forest exactly one descriptor has status
\* active and it names the active tip; branchlen is 0 exactly for the
\* descriptor with status active; every other descriptor has branchlen at
\* least 1 and names a node that is not on the active chain.
C30_OneActiveDescriptor ==
    tpc = "done" =>
        /\ Cardinality({i \in 1..Len(res) : res[i].status = "active"}) = 1
        /\ \A i \in 1..Len(res) :
               /\ res[i].status = "active" <=> res[i].hash = Tip
               /\ res[i].branchlen = 0 <=> res[i].status = "active"
               /\ res[i].status # "active" =>
                      /\ res[i].branchlen >= 1
                      /\ res[i].hash \notin OnActiveChain
\* A tip off the active chain, not higher than the active tip, was
\* described next to the active tip.
C30_Witness ==
    /\ tpc = "done"
    /\ \E i, j \in 1..Len(res) :
           /\ res[i].hash = Tip /\ res[i].status = "active" /\ res[i].branchlen = 0
           /\ res[j].status # "active" /\ res[j].branchlen >= 1
           /\ res[j].height <= res[i].height

====
